---- MODULE Spec2Model ----
(***************************************************************************)
(* bevy_save: snapshot capture (RawSnapshot::from_world_with_filter) and   *)
(* reconciliation (Applier::apply) against a live bevy World.              *)
(*                                                                         *)
(* A World is modelled with bevy's entity allocator: an Entity is an       *)
(* (index, generation) pair, a despawn bumps the slot's generation and     *)
(* puts the index on the free list, a spawn pops the free list before it   *)
(* takes a fresh index.  Entity::from_raw(i) is (i, generation 0).         *)
(***************************************************************************)
EXTENDS Integers, Sequences, FiniteSets, TLC

VARIABLES world, snapshot, origin, edits, last

vars == <<world, snapshot, origin, edits, last>>

---------------------------------------------------------------------------
(* Bounds *)

\* entity slots the allocator may hand out
MaxIndex == 2
\* highest generation a slot may reach
MaxGen == 2
\* entity records in a deserialized snapshot
MaxRecords == 2
\* host edits of the world between taking a snapshot and applying it
MaxEdits == 1
\* live entities that carry a Transform
MaxTransforms == 1

Index == 0..(MaxIndex - 1)
Gen == 0..MaxGen
Val == {0, 1}
\* abstract values of the Rollbacks resource (the rollback History)
Hist == {0, 1}

Entity == [index : Index, generation : Gen]

\* Entity::from_raw: the generation is 0
from_raw(i) == [index |-> i, generation |-> 0]

---------------------------------------------------------------------------
(* Registries: AppTypeRegistry and SaveableRegistry *)

\* component types a World entity can carry: "A" is a saveable component (Velocity),
\* "T" one that is reflected and registered but not saveable (Transform)
ComponentTypes == {"A", "T"}
\* resource types a World can hold
ResourceTypes == {"R"}

\* type names present in the AppTypeRegistry ("U" is not)
Registered == {"A", "R", "T"}

\* the type data registered for a type name
TypeData(t) ==
  CASE t \in {"A", "T"} -> {"ReflectComponent"}
    [] t = "R" -> {"ReflectResource"}
    [] OTHER -> {}

\* SaveableRegistry::types / contains
Saveables == {"A", "R"}

\* SaveableRegistry::can_rollback
can_rollback(t) == t \in {"A", "R"}

\* the query filter F of the *With despawn modes: With<A>
Matches(w, e) == w.components[e]["A"] # {}

---------------------------------------------------------------------------
(* World *)

NoComponents == [t \in ComponentTypes |-> {}]

\* App::new() with SavePlugins: no entity, no saveable resource, default Rollbacks
EmptyWorld ==
  [entities   |-> {},
   meta       |-> <<>>,
   pending    |-> <<>>,
   components |-> [e \in Entity |-> NoComponents],
   resources  |-> [t \in ResourceTypes |-> {}],
   rollbacks  |-> 0]

CanSpawn(w) == w.pending # <<>> \/ Len(w.meta) < MaxIndex

\* World::spawn_empty: reuse a freed index at its current generation, else a new index
spawn_empty(w) ==
  IF w.pending # <<>>
  THEN LET n == Len(w.pending)
           i == w.pending[n]
           e == [index |-> i, generation |-> w.meta[i + 1]]
       IN [id |-> e,
           world |-> [w EXCEPT !.pending = SubSeq(@, 1, n - 1),
                               !.entities = @ \cup {e}]]
  ELSE LET e == [index |-> Len(w.meta), generation |-> 0]
       IN [id |-> e,
           world |-> [w EXCEPT !.meta = Append(@, 0),
                               !.entities = @ \cup {e}]]

CanDespawn(w, e) == w.meta[e.index + 1] < MaxGen

\* World::despawn: the slot's generation is bumped and its index freed
despawn(w, e) ==
  IF e \in w.entities
  THEN [w EXCEPT !.entities = @ \ {e},
                 !.meta[e.index + 1] = @ + 1,
                 !.pending = Append(@, e.index),
                 !.components[e] = NoComponents]
  ELSE w

\* every ordering of a finite set, as sequences without repetition
Orders(S) ==
  {s \in [1..Cardinality(S) -> S] : \A i, j \in 1..Cardinality(S) : s[i] = s[j] => i = j}

---------------------------------------------------------------------------
(* Capture *)

\* archetype component order of an entity, resource order of the registry
ComponentOrder == <<"A", "T">>
ResourceOrder == <<"R">>

RECURSIVE collect(_, _, _, _)
\* the entries [type, value] of the types of order[i..] that are in keep and store has
collect(order, i, store, keep) ==
  IF i > Len(order) THEN <<>>
  ELSE LET t == order[i]
           rest == collect(order, i + 1, store, keep)
       IN IF t \in keep /\ store[t] # {}
          THEN <<[type |-> t, value |-> CHOOSE v \in store[t] : TRUE]>> \o rest
          ELSE rest

\* every type name a capture filter can be asked about
TypeNames == ComponentTypes \cup ResourceTypes

\* faulty variant: every reflected component is captured, saveable or not
from_world_with_filter_unsaveable(w, filter, iter) ==
  LET res == {t \in ResourceTypes : t \in Saveables /\ t \in Registered /\ t \in filter
                                     /\ "ReflectResource" \in TypeData(t)}
      cmp == {t \in ComponentTypes : t \in Registered /\ t \in filter
                                      /\ "ReflectComponent" \in TypeData(t)}
  IN [resources |-> collect(ResourceOrder, 1, w.resources, res),
      entities  |-> [k \in 1..Len(iter) |->
                       [entity     |-> iter[k].index,
                        components |-> collect(ComponentOrder, 1, w.components[iter[k]], cmp)]]]

\* RawSnapshot::from_world_with_filter; filter is the set of type names the caller's
\* predicate admits, iter the order world.iter_entities() yields
from_world_with_filter(w, filter, iter) ==
  LET res == {t \in ResourceTypes : t \in Saveables /\ t \in Registered /\ t \in filter
                                     /\ "ReflectResource" \in TypeData(t)}
      cmp == {t \in ComponentTypes : t \in Saveables /\ t \in Registered /\ t \in filter
                                      /\ "ReflectComponent" \in TypeData(t)}
  IN [resources |-> collect(ResourceOrder, 1, w.resources, res),
      entities  |-> [k \in 1..Len(iter) |->
                       [entity     |-> iter[k].index,
                        components |-> collect(ComponentOrder, 1, w.components[iter[k]], cmp)]]]

\* faulty variant: an entity without admitted components gets no record
Snapshot_from_world_skipping(w, iter) ==
  LET raw == from_world_with_filter(w, TypeNames, iter)
  IN [kind |-> "Snapshot",
      snapshot |-> [raw EXCEPT !.entities = SelectSeq(@, LAMBDA r : r.components # <<>>)],
      rollbacks |-> w.rollbacks]

\* Snapshot::from_world: unfiltered capture plus a copy of the Rollbacks
Snapshot_from_world(w, iter) ==
  [kind |-> "Snapshot",
   snapshot |-> from_world_with_filter(w, TypeNames, iter),
   rollbacks |-> w.rollbacks]

\* Rollback::from_world: capture of the rollback-eligible types
Rollback_from_world(w, iter) ==
  [kind |-> "Rollback",
   snapshot |-> from_world_with_filter(w, {t \in TypeNames : can_rollback(t)}, iter),
   rollbacks |-> 0]

---------------------------------------------------------------------------
(* SaveableEntity and EntityMap *)

EmptyMap == [e \in {} |-> from_raw(0)]

\* SaveableEntity::map: the explicit EntityMap entry of the record, if any
map(saved, m) ==
  IF from_raw(saved.entity) \in DOMAIN m THEN {m[from_raw(saved.entity)]} ELSE {}

\* SaveableEntity::try_map: the explicit entry, else the record's raw identity; it
\* yields an Entity for every record (the despawn match collects a HashSet<Entity>),
\* and a raw identity carries no generation
try_map(saved, m) ==
  IF map(saved, m) # {} THEN CHOOSE e \in map(saved, m) : TRUE ELSE from_raw(saved.entity)

---------------------------------------------------------------------------
(* Applier::apply on a RawSnapshot *)

Ok == [kind |-> "Ok", type_name |-> ""]
Err(k, t) == [kind |-> k, type_name |-> t]

\* DespawnMode constructors: the variant each one builds
unmapped_with == "UnmappedWith"
all_with == "UnmappedWith"

\* the ways a caller obtains a DespawnMode, and the variant obtained
Builds == {"Missing", "MissingWith", "Unmapped", "unmapped_with", "all_with", "AllWith", "None"}
Variant(b) ==
  CASE b = "unmapped_with" -> unmapped_with
    [] b = "all_with" -> all_with
    [] OTHER -> b

RECURSIVE apply_resources(_, _, _)
\* the resource loop: first error aborts, earlier inserts stay
apply_resources(w, rs, i) ==
  IF i > Len(rs) THEN [world |-> w, result |-> Ok]
  ELSE LET r == rs[i] IN
    IF r.type \notin Registered
    THEN [world |-> w, result |-> Err("UnregisteredType", r.type)]
    ELSE IF "ReflectResource" \notin TypeData(r.type)
    THEN [world |-> w, result |-> Err("UnregisteredResource", r.type)]
    ELSE apply_resources([w EXCEPT !.resources[r.type] = {r.value}], rs, i + 1)

\* faulty variant: the Unmapped arm counts a record's raw identity, as the Missing arm does
invalid_unmapped_by_identity(w, raw, m, mode) ==
  LET recs == {raw.entities[k] : k \in 1..Len(raw.entities)}
      matches == {e \in w.entities : Matches(w, e)}
      inv == {e \in w.entities : e \notin {try_map(r, m) : r \in recs}}
  IN CASE mode \in {"Missing", "Unmapped"} -> inv
       [] mode \in {"MissingWith", "UnmappedWith"} -> inv \cap matches
       [] mode = "AllWith" -> matches
       [] OTHER -> {}

\* faulty variant: DespawnMode::None falls into the Missing arm
invalid_none_as_missing(w, raw, m, mode) ==
  LET recs == {raw.entities[k] : k \in 1..Len(raw.entities)}
      matches == {e \in w.entities : Matches(w, e)}
  IN CASE mode \in {"Missing", "None"} ->
            {e \in w.entities : e \notin {try_map(r, m) : r \in recs}}
       [] mode = "MissingWith" ->
            {e \in w.entities : e \notin {try_map(r, m) : r \in recs}} \cap matches
       [] mode = "Unmapped" ->
            {e \in w.entities : e \notin UNION {map(r, m) : r \in recs}}
       [] mode = "UnmappedWith" ->
            {e \in w.entities : e \notin UNION {map(r, m) : r \in recs}} \cap matches
       [] OTHER -> matches

\* the entities the despawn match classifies for removal
invalid(w, raw, m, mode) ==
  LET recs == {raw.entities[k] : k \in 1..Len(raw.entities)}
      matches == {e \in w.entities : Matches(w, e)}
  IN CASE mode \in {"Missing", "MissingWith"} ->
            LET valid == {try_map(r, m) : r \in recs}
                inv == {e \in w.entities : e \notin valid}
            IN IF mode = "MissingWith" THEN inv \cap matches ELSE inv
       [] mode \in {"Unmapped", "UnmappedWith"} ->
            LET valid == UNION {map(r, m) : r \in recs}
                inv == {e \in w.entities : e \notin valid}
            IN IF mode = "UnmappedWith" THEN inv \cap matches ELSE inv
       [] mode = "AllWith" -> matches
       [] OTHER -> {}

RECURSIVE despawn_all(_, _, _)
despawn_all(w, order, i) ==
  IF i > Len(order) THEN w ELSE despawn_all(despawn(w, order[i]), order, i + 1)

\* faulty variant: the fallback is keyed by the live id instead of Entity::from_raw(index)
fallback_by_id(w, mapping) ==
  IF mapping = "Simple" THEN [k \in w.entities |-> k] ELSE EmptyMap

\* the fallback EntityMap: raw identity of every live entity -> that entity (Simple only)
fallback(w, mapping) ==
  IF mapping = "Simple"
  THEN [k \in {from_raw(e.index) : e \in w.entities} |->
          CHOOSE e \in w.entities : e.index = k.index]
  ELSE EmptyMap

RECURSIVE apply_components_skipping(_, _, _, _)
\* faulty variant: a component of an unregistered type is skipped, as capture skips it
apply_components_skipping(w, e, cs, i) ==
  IF i > Len(cs) THEN [world |-> w, result |-> Ok, applied |-> i - 1]
  ELSE LET c == cs[i] IN
    IF "ReflectComponent" \notin TypeData(c.type)
    THEN apply_components_skipping(w, e, cs, i + 1)
    ELSE apply_components_skipping([w EXCEPT !.components[e][c.type] = {c.value}], e, cs, i + 1)

RECURSIVE apply_components_replacing(_, _, _, _)
\* faulty variant: the record replaces the entity's component set wholesale
apply_components_replacing(w, e, cs, i) ==
  LET w0 == IF i = 1 THEN [w EXCEPT !.components[e] = NoComponents] ELSE w
  IN IF i > Len(cs) THEN [world |-> w0, result |-> Ok, applied |-> i - 1]
     ELSE LET c == cs[i] IN
       IF c.type \notin Registered
       THEN [world |-> w0, result |-> Err("UnregisteredType", c.type), applied |-> i - 1]
       ELSE IF "ReflectComponent" \notin TypeData(c.type)
       THEN [world |-> w0, result |-> Err("UnregisteredComponent", c.type), applied |-> i - 1]
       ELSE apply_components_replacing([w0 EXCEPT !.components[e][c.type] = {c.value}],
                                       e, cs, i + 1)

RECURSIVE apply_components(_, _, _, _)
\* the component loop of one record onto entity e; applied counts the components applied
apply_components(w, e, cs, i) ==
  IF i > Len(cs) THEN [world |-> w, result |-> Ok, applied |-> i - 1]
  ELSE LET c == cs[i] IN
    IF c.type \notin Registered
    THEN [world |-> w, result |-> Err("UnregisteredType", c.type), applied |-> i - 1]
    ELSE IF "ReflectComponent" \notin TypeData(c.type)
    THEN [world |-> w, result |-> Err("UnregisteredComponent", c.type), applied |-> i - 1]
    ELSE apply_components([w EXCEPT !.components[e][c.type] = {c.value}], e, cs, i + 1)

RECURSIVE apply_entities(_, _, _, _, _)
\* the record loop; st = [world, result, trace, full]
apply_entities(st, records, m, fb, k) ==
  IF k > Len(records) THEN st
  ELSE
    LET saved == records[k]
        w == st.world
        explicit == map(saved, m)
        key == from_raw(saved.entity)
        spawns == explicit = {} /\ key \notin DOMAIN fb
    IN IF spawns /\ ~CanSpawn(w) THEN [st EXCEPT !.full = TRUE]
       ELSE
         LET sp == spawn_empty(w)
             entity == IF explicit # {} THEN CHOOSE e \in explicit : TRUE
                       ELSE IF key \in DOMAIN fb THEN fb[key]
                       ELSE sp.id
             w1 == IF spawns THEN sp.world ELSE w
         IN IF entity \notin w1.entities
            THEN \* World::entity_mut panics on an entity that does not exist
                 [st EXCEPT !.world = w1, !.result = Err("Panic", ""),
                            !.trace = Append(@, [entity |-> entity, spawned |-> spawns,
                                                 applied |-> 0])]
            ELSE LET r == apply_components(w1, entity, saved.components, 1)
                     st1 == [st EXCEPT !.world = r.world, !.result = r.result,
                                       !.trace = Append(@, [entity |-> entity,
                                                            spawned |-> spawns,
                                                            applied |-> r.applied])]
                 IN IF r.result # Ok THEN st1
                    ELSE apply_entities(st1, records, m, fb, k + 1)

\* Applier<&RawSnapshot>::apply; order is the order the invalid entities are despawned in
\* (no registered type carries ReflectMapEntities, so both map_entities passes do nothing)
RawSnapshot_apply(w, raw, m, mode, mapping, order) ==
  LET r1 == apply_resources(w, raw.resources, 1)
  IN IF r1.result # Ok
     THEN [world |-> r1.world, result |-> r1.result, mid |-> r1.world.entities,
           trace |-> <<>>, full |-> FALSE]
     ELSE IF \E e \in invalid(r1.world, raw, m, mode) : ~CanDespawn(r1.world, e)
     THEN [world |-> r1.world, result |-> Ok, mid |-> r1.world.entities,
           trace |-> <<>>, full |-> TRUE]
     ELSE LET w2 == despawn_all(r1.world, order, 1)
              st == apply_entities([world |-> w2, result |-> Ok, trace |-> <<>>,
                                    full |-> FALSE],
                                   raw.entities, m, fallback(w2, mapping), 1)
          IN [world |-> st.world, result |-> st.result, mid |-> w2.entities,
              trace |-> st.trace, full |-> st.full]

\* faulty variant: the Rollbacks are overwritten before the result is looked at
Snapshot_apply_eager(w, snap, m, mode, mapping, order) ==
  [RawSnapshot_apply(w, snap.snapshot, m, mode, mapping, order)
     EXCEPT !.world.rollbacks = snap.rollbacks]

\* Applier<Snapshot>::apply: the Rollbacks are overwritten only after an Ok
Snapshot_apply(w, snap, m, mode, mapping, order) ==
  LET r == RawSnapshot_apply(w, snap.snapshot, m, mode, mapping, order)
  IN IF r.result = Ok
     THEN [r EXCEPT !.world.rollbacks = snap.rollbacks]
     ELSE r

\* Applier<Rollback>::apply: delegates to the RawSnapshot applier
Rollback_apply(w, snap, m, mode, mapping, order) ==
  RawSnapshot_apply(w, snap.snapshot, m, mode, mapping, order)

\* the despawn order of a call: an ordering of the invalid set of the post-resource world
DespawnOrders(w, raw, m, mode) ==
  LET r1 == apply_resources(w, raw.resources, 1)
  IN IF r1.result # Ok THEN {<<>>} ELSE Orders(invalid(r1.world, raw, m, mode))

---------------------------------------------------------------------------
(* State machine *)

NoSnapshot ==
  [kind |-> "None", snapshot |-> [resources |-> <<>>, entities |-> <<>>], rollbacks |-> 0]

NoOrigin == [captured |-> FALSE, world |-> EmptyWorld]

\* no Applier call to observe
NoCall ==
  [op |-> "none", repeat |-> FALSE, map |-> EmptyMap, built |-> "None", despawn |-> "None",
   mapping |-> "Simple", result |-> Ok, pre |-> EmptyWorld, mid |-> {}, trace |-> <<>>]

Init ==
  /\ world = EmptyWorld
  /\ snapshot = NoSnapshot
  /\ origin = NoOrigin
  /\ edits = 0
  /\ last = NoCall

\* no live entity carries a Transform
NoTransforms == \A e \in world.entities : world.components[e]["T"] = {}

\* the host may edit the world: no Applier call is in progress; while a capture is held
\* it edits only a world without Transform carriers
Idle ==
  /\ last.op = "none"
  /\ snapshot.kind = "None" \/ (origin.captured /\ edits < MaxEdits /\ NoTransforms)

Edited == edits' = IF snapshot.kind = "None" THEN 0 ELSE edits + 1

\* commands.spawn
Spawn ==
  /\ Idle /\ CanSpawn(world)
  /\ world' = spawn_empty(world).world
  /\ Edited
  /\ UNCHANGED <<snapshot, origin, last>>

\* World::despawn by the host, which leaves the last generation to the Applier
Despawn ==
  /\ Idle
  /\ \E e \in world.entities :
       /\ e.generation < MaxGen - 1
       /\ world' = despawn(world, e)
  /\ Edited
  /\ UNCHANGED <<snapshot, origin, last>>

\* a system inserts or mutates component A of an entity
Insert ==
  /\ Idle
  /\ \E e \in world.entities, v \in Val :
       /\ world.components[e]["A"] # {v}
       /\ world' = [world EXCEPT !.components[e]["A"] = {v}]
  /\ Edited
  /\ UNCHANGED <<snapshot, origin, last>>

\* commands.spawn of (SpatialBundle, Velocity): an entity with a Velocity also carries
\* a Transform
InsertTransform ==
  /\ Idle /\ snapshot.kind = "None"
  /\ Cardinality({e \in world.entities : world.components[e]["T"] # {}}) < MaxTransforms
  /\ \E e \in world.entities :
       /\ world.components[e]["A"] # {}
       /\ world.components[e]["T"] = {}
       /\ world' = [world EXCEPT !.components[e]["T"] = {0}]
  /\ Edited
  /\ UNCHANGED <<snapshot, origin, last>>

\* App::insert_resource / a system mutates resource R
InsertResource ==
  /\ Idle
  /\ \E v \in Val :
       /\ world.resources["R"] # {v}
       /\ world' = [world EXCEPT !.resources["R"] = {v}]
  /\ Edited
  /\ UNCHANGED <<snapshot, origin, last>>

\* the rollback History moves on after the snapshot was taken (a checkpoint is pushed)
Checkpoint ==
  /\ Idle /\ snapshot.kind # "None"
  /\ \E h \in Hist :
       /\ h # world.rollbacks
       /\ world' = [world EXCEPT !.rollbacks = h]
  /\ Edited
  /\ UNCHANGED <<snapshot, origin, last>>

\* App::new() while a capture is held: the capture meets a world with nothing in it
NewWorld ==
  /\ Idle /\ snapshot.kind # "None"
  /\ world # EmptyWorld
  /\ world' = EmptyWorld
  /\ Edited
  /\ UNCHANGED <<snapshot, origin, last>>

\* Snapshot::from_world
CaptureSnapshot ==
  /\ last.op = "none" /\ snapshot.kind = "None"
  /\ \E iter \in Orders(world.entities) : snapshot' = Snapshot_from_world(world, iter)
  /\ origin' = [captured |-> TRUE, world |-> world]
  /\ edits' = 0
  /\ UNCHANGED <<world, last>>

\* Rollback::from_world
CaptureRollback ==
  /\ last.op = "none" /\ snapshot.kind = "None"
  /\ \E iter \in Orders(world.entities) : snapshot' = Rollback_from_world(world, iter)
  /\ origin' = [captured |-> TRUE, world |-> world]
  /\ edits' = 0
  /\ UNCHANGED <<world, last>>

\* component lists of deserialized records: a good one, and one whose second
\* component is of a type the registry does not know
Lists ==
  {<<[type |-> "A", value |-> 1]>>,
   <<[type |-> "A", value |-> 0], [type |-> "U", value |-> 0], [type |-> "A", value |-> 1]>>}

\* resource lists of deserialized snapshots
ResourceLists ==
  {<<[type |-> "R", value |-> 1]>>,
   <<[type |-> "U", value |-> 0]>>,
   <<[type |-> "A", value |-> 0]>>,
   <<[type |-> "R", value |-> 1], [type |-> "U", value |-> 0]>>}

\* the Snapshots a SnapshotDeserializer may yield
Deserializable ==
  {[kind |-> "Snapshot", snapshot |-> [resources |-> <<>>, entities |-> es], rollbacks |-> 1] :
     es \in UNION {[1..n -> [entity : Index, components : Lists]] : n \in 0..MaxRecords}}
  \cup
  {[kind |-> "Snapshot", snapshot |-> [resources |-> rs, entities |-> <<>>], rollbacks |-> 1] :
     rs \in ResourceLists}

\* a Snapshot read back from a save file, in a world without Transform carriers
Deserialize ==
  /\ last.op = "none"
  /\ snapshot.kind = "None"
  /\ NoTransforms
  /\ snapshot' \in Deserializable
  /\ origin' = NoOrigin
  /\ edits' = 0
  /\ UNCHANGED <<world, last>>

\* the EntityMaps a caller passes to Applier::map: empty, or one entry that maps the
\* first record onto a live entity
Maps ==
  {EmptyMap} \cup
  {[k \in {from_raw(snapshot.snapshot.entities[1].entity)} |-> t] :
     t \in IF snapshot.snapshot.entities = <<>> THEN {} ELSE world.entities}

Call(m, b, mapping, order, again) ==
  LET mode == Variant(b)
      r == IF snapshot.kind = "Snapshot"
           THEN Snapshot_apply(world, snapshot, m, mode, mapping, order)
           ELSE Rollback_apply(world, snapshot, m, mode, mapping, order)
  IN /\ order \in DespawnOrders(world, snapshot.snapshot, m, mode)
     /\ ~r.full
     /\ world' = r.world
     /\ last' = [op |-> "apply", repeat |-> again, map |-> m, built |-> b, despawn |-> mode,
                 mapping |-> mapping, result |-> r.result, pre |-> world, mid |-> r.mid,
                 trace |-> r.trace]
     /\ UNCHANGED <<snapshot, origin, edits>>

\* Applier::new(world, snapshot).map(m).despawn(mode).mapping(mapping).apply()
Apply ==
  /\ last.op = "none" /\ snapshot.kind # "None"
  /\ \E m \in Maps, b \in Builds, mapping \in {"Simple", "Strict"} :
       \E order \in DespawnOrders(world, snapshot.snapshot, m, Variant(b)) :
         Call(m, b, mapping, order, FALSE)

\* the same snapshot applied a second time, with the same settings
ApplyAgain ==
  /\ last.op = "apply" /\ ~last.repeat /\ last.result = Ok
  /\ \E order \in DespawnOrders(world, snapshot.snapshot, last.map, last.despawn) :
       Call(last.map, last.built, last.mapping, order, TRUE)

\* apply(self) has consumed the Applier; the session ends and a new App is built
Restart ==
  /\ last.op = "apply"
  /\ world' = EmptyWorld
  /\ snapshot' = NoSnapshot
  /\ origin' = NoOrigin
  /\ edits' = 0
  /\ last' = NoCall

Next ==
  \/ Spawn
  \/ Despawn
  \/ Insert
  \/ InsertTransform
  \/ InsertResource
  \/ Checkpoint
  \/ NewWorld
  \/ CaptureSnapshot
  \/ CaptureRollback
  \/ Deserialize
  \/ Apply
  \/ ApplyAgain
  \/ Restart

Spec == Init /\ [][Next]_vars

---------------------------------------------------------------------------
(* Properties *)

Applied == last.op = "apply"

Records == snapshot.snapshot.entities

\* the raw identities of the snapshot's records
Ids == {Records[k].entity : k \in 1..Len(Records)}

\* the call got past the resource loop, so the despawn step ran
DespawnRan == Applied /\ ~(last.result # Ok /\ last.trace = <<>>)

Defaults == last.built = "Missing" /\ last.mapping = "Simple" /\ last.map = EmptyMap

\* C1: Snapshot apply leaves the world's Rollbacks equal to the snapshot's copy after an
\* Ok of the inner RawSnapshot apply, and equal to what they were after any error.
C1_HistoryOnlyAfterOk ==
  (Applied /\ snapshot.kind = "Snapshot") =>
    /\ last.result = Ok => world.rollbacks = snapshot.rollbacks
    /\ last.result # Ok => world.rollbacks = last.pre.rollbacks

\* a Snapshot apply failed after it had changed the world, with a History that differs
C1_Witness ==
  /\ Applied /\ snapshot.kind = "Snapshot"
  /\ last.result.kind = "UnregisteredType"
  /\ world.components # last.pre.components
  /\ snapshot.rollbacks # last.pre.rollbacks
  /\ world.rollbacks = last.pre.rollbacks

\* C2 (the claim at the empty EntityMapping, which it covers): after an Ok apply with
\* DespawnMode::Missing every entity live before whose raw identity is no record's
\* identity is gone, and every entity live before whose raw identity is a record's
\* identity is still live.
C2_MissingByRawIdentity ==
  (Applied /\ last.built = "Missing" /\ last.map = EmptyMap /\ last.result = Ok) =>
    \A e \in last.pre.entities :
      /\ e.index \notin Ids => e \notin world.entities
      /\ e.index \in Ids => e \in world.entities

\* C3: a second apply of the same Snapshot with Missing, Simple and the empty
\* EntityMapping leaves entities, components and resources as the first apply left them.
C3_Idempotent ==
  (Applied /\ last.repeat /\ snapshot.kind = "Snapshot" /\ Defaults /\ last.result = Ok) =>
    /\ world.entities = last.pre.entities
    /\ world.components = last.pre.components
    /\ world.resources = last.pre.resources

\* the targets the record loop resolved, and those it spawned
Targets == {last.trace[k].entity : k \in 1..Len(last.trace)}
Spawned == {last.trace[k].entity : k \in {j \in 1..Len(last.trace) : last.trace[j].spawned}}

\* the captured world holds only components of saveable types
AllSaveable ==
  \A e \in origin.world.entities : \A t \in ComponentTypes \ Saveables :
    origin.world.components[e][t] = {}

\* C4: a capture of a world W whose components are all saveable, applied to an empty
\* world with the empty EntityMapping, DespawnMode::None and MappingMode::Strict, returns
\* Ok and yields W's resources and, up to a renaming of entities, W's entities with W's
\* component values.
C4_RoundTrip ==
  (/\ Applied /\ ~last.repeat /\ origin.captured /\ AllSaveable
   /\ last.pre.entities = {} /\ \A t \in ResourceTypes : last.pre.resources[t] = {}
   /\ last.map = EmptyMap /\ last.built = "None" /\ last.mapping = "Strict") =>
    /\ last.result = Ok
    /\ world.resources = origin.world.resources
    /\ \E f \in [origin.world.entities -> world.entities] :
         /\ \A e \in world.entities : \E d \in origin.world.entities : f[d] = e
         /\ \A d, e \in origin.world.entities : f[d] = f[e] => d = e
         /\ \A e \in origin.world.entities :
              world.components[f[e]] = origin.world.components[e]

\* a world of two entities, one with a component and one without, plus a resource, went
\* through capture and apply onto an empty world
C4_Witness ==
  /\ Applied /\ ~last.repeat /\ origin.captured /\ AllSaveable
  /\ last.pre = EmptyWorld
  /\ last.map = EmptyMap /\ last.built = "None" /\ last.mapping = "Strict"
  /\ Cardinality(origin.world.entities) = 2
  /\ \E e \in origin.world.entities : origin.world.components[e]["A"] = {1}
  /\ \E e \in origin.world.entities : origin.world.components[e]["A"] = {}
  /\ origin.world.resources["R"] = {1}
  /\ Cardinality(world.entities) = 2

\* C5: with the empty EntityMapping, under Simple a record whose raw identity is that of
\* an entity live after the despawn step is applied onto that entity and spawns nothing;
\* under Strict every record is applied onto an entity spawned for it, and the entities
\* live after the despawn step keep their components.
C5_TargetResolution ==
  (Applied /\ last.map = EmptyMap) =>
    /\ \A k \in 1..Len(last.trace) :
         LET live == {e \in last.mid : e.index = Records[k].entity}
         IN /\ (last.mapping = "Simple" /\ live # {}) =>
                 last.trace[k].entity \in live /\ ~last.trace[k].spawned
            /\ last.mapping = "Strict" =>
                 /\ last.trace[k].spawned
                 /\ last.trace[k].entity \notin last.mid
                 /\ \A j \in 1..Len(last.trace) :
                      last.trace[j].entity = last.trace[k].entity => j = k
    /\ world.entities = last.mid \cup Spawned
    /\ Spawned \cap last.mid = {}
    /\ last.mapping = "Strict" =>
         \A e \in last.mid : world.components[e] = last.pre.components[e]

\* under Simple a record was applied onto the live entity of its raw identity, an entity
\* of generation 1, and changed its component
C5_Witness ==
  /\ Applied /\ last.map = EmptyMap /\ last.mapping = "Simple"
  /\ \E k \in 1..Len(last.trace) :
       /\ last.trace[k].entity \in last.mid
       /\ last.trace[k].entity.generation = 1
       /\ last.trace[k].entity.index = Records[k].entity
       /\ last.trace[k].applied = 1
       /\ world.components[last.trace[k].entity] # last.pre.components[last.trace[k].entity]

\* the records that hold a component of a type the registry does not know
BadRecords ==
  {k \in 1..Len(Records) :
     \E i \in 1..Len(Records[k].components) : Records[k].components[i].type \notin Registered}

\* the first such record, and the first such component in it
FirstBad == CHOOSE k \in BadRecords : \A j \in BadRecords : k <= j
FirstBadAt ==
  LET cs == Records[FirstBad].components
  IN CHOOSE i \in 1..Len(cs) :
       /\ cs[i].type \notin Registered
       /\ \A j \in 1..(i - 1) : cs[j].type \in Registered

\* no component before the first unregistered one fails for another reason
NoOtherError ==
  \A k \in 1..FirstBad : \A i \in 1..Len(Records[k].components) :
    (k < FirstBad \/ i < FirstBadAt) =>
      "ReflectComponent" \in TypeData(Records[k].components[i].type)

\* C6: when the k-th record is the first to hold a component of an unregistered type,
\* an apply that reaches it returns UnregisteredType naming that type; no later record
\* is resolved, spawned for or applied, and of the k-th record only the components before
\* the failing one are applied.
C6_ErrorPropagation ==
  (/\ DespawnRan /\ last.result.kind # "Panic"
   /\ BadRecords # {} /\ NoOtherError) =>
    LET k == FirstBad
        p == FirstBadAt
        cs == Records[k].components
    IN /\ last.result = Err("UnregisteredType", cs[p].type)
       /\ Len(last.trace) = k
       /\ last.trace[k].applied = p - 1
       /\ world.entities = last.mid \cup Targets
       /\ \A e \in world.entities \ Targets : world.components[e] = last.pre.components[e]
       /\ \A i \in (p + 1)..Len(cs) :
            LET before == {j \in 1..(p - 1) : cs[j].type = cs[i].type}
            IN before # {} =>
                 LET j == CHOOSE x \in before : \A y \in before : y <= x
                 IN world.components[last.trace[k].entity][cs[i].type] = {cs[j].value}

\* the first of two records failed at its second component: its third component and the
\* second record were not applied
C6_Witness ==
  /\ DespawnRan /\ last.result.kind = "UnregisteredType"
  /\ Len(Records) = 2 /\ BadRecords = {1} /\ FirstBadAt = 2
  /\ Records[2].entity # Records[1].entity
  /\ Len(last.trace) = 1
  /\ world.components[last.trace[1].entity]["A"] = {0}
  /\ Cardinality(world.entities) = 1

\* C7: an apply whose despawn policy came from DespawnMode::all_with despawns every live
\* entity that matches the filter, whatever the EntityMapping says about it.
C7_AllWithDespawnsMatching ==
  (DespawnRan /\ last.built = "all_with") =>
    \A e \in last.pre.entities : Matches(last.pre, e) => e \notin last.mid

\* the entities some record's explicit EntityMapping entry points to
MappedImages ==
  {e \in Entity : \E k \in 1..Len(Records) :
     /\ from_raw(Records[k].entity) \in DOMAIN last.map
     /\ last.map[from_raw(Records[k].entity)] = e}

\* C8 (amended): with DespawnMode::Unmapped a live entity survives the despawn step
\* exactly when it is the explicit EntityMapping image of some record; identity reuse by
\* the fallback does not count, so the empty EntityMapping despawns every live entity.
C8_UnmappedByExplicitMap ==
  (DespawnRan /\ last.built = "Unmapped") =>
    /\ \A e \in last.pre.entities : e \in last.mid <=> e \in MappedImages
    /\ last.map = EmptyMap => last.mid = {}

\* an Unmapped apply kept the mapped image of a record and despawned another entity whose
\* raw identity is a record's identity
C8_Witness ==
  /\ DespawnRan /\ last.built = "Unmapped" /\ last.mapping = "Simple"
  /\ \E e \in last.pre.entities : e \in last.mid /\ e \in MappedImages
  /\ \E e \in last.pre.entities : e.index \in Ids /\ e \notin last.mid

\* C8 (as claimed): with DespawnMode::Unmapped, the empty EntityMapping and Simple, a live
\* entity whose raw identity is a record's identity is kept.
C8_UnmappedKeepsIdentity ==
  (DespawnRan /\ last.built = "Unmapped" /\ last.map = EmptyMap /\ last.mapping = "Simple") =>
    \A e \in last.pre.entities : e.index \in Ids => e \in last.mid

\* since the capture only values changed: same entities, same allocator state, the same
\* components and resources present
OnlyValuesChanged ==
  /\ last.pre.entities = origin.world.entities
  /\ last.pre.meta = origin.world.meta
  /\ last.pre.pending = origin.world.pending
  /\ \A e \in Entity, t \in ComponentTypes :
       (last.pre.components[e][t] = {}) <=> (origin.world.components[e][t] = {})
  /\ \A t \in ResourceTypes :
       (last.pre.resources[t] = {}) <=> (origin.world.resources[t] = {})

\* C9: a Rollback applied with default settings to the world it was captured from, in
\* which only values changed since, returns Ok, keeps the set of live entities and gives
\* every component and resource its captured value.
C9_RollbackRestores ==
  (/\ Applied /\ ~last.repeat /\ snapshot.kind = "Rollback" /\ origin.captured
   /\ Defaults /\ OnlyValuesChanged) =>
    /\ last.result = Ok
    /\ world.entities = last.pre.entities
    /\ world.components = origin.world.components
    /\ world.resources = origin.world.resources

\* C10: with DespawnMode::None every entity live before the apply is live after it, so
\* the number of live entities does not decrease, whatever the apply returns.
C10_KeepAll ==
  (Applied /\ last.built = "None") =>
    /\ last.pre.entities \subseteq world.entities
    /\ Cardinality(world.entities) >= Cardinality(last.pre.entities)

\* a None apply on a world with entities spawned one more and then failed
C10_Witness ==
  /\ Applied /\ last.built = "None"
  /\ last.result.kind = "UnregisteredType"
  /\ last.pre.entities # {}
  /\ Cardinality(world.entities) > Cardinality(last.pre.entities)

\* the components <<record, position>> of type t that the record loop applied onto e
Writes(e, t) ==
  {p \in UNION {{<<k, i>> : i \in 1..last.trace[k].applied} :
                  k \in {j \in 1..Len(last.trace) : last.trace[j].entity = e}} :
     Records[p[1]].components[p[2]].type = t}

\* the last of them in the order of the loop
LastWrite(e, t) ==
  CHOOSE p \in Writes(e, t) :
    \A q \in Writes(e, t) : q[1] < p[1] \/ (q[1] = p[1] /\ q[2] <= p[2])

\* C11: an entity that survives the despawn step is live after the apply; a component of
\* it whose type no record applied onto it holds is what it was before the apply, present
\* or absent; a component whose type such a record holds has the value last applied,
\* whether it was present or not; an entity no record resolves to keeps its components.
C11_Additive ==
  Applied =>
    /\ \A e \in last.mid :
         /\ e \in world.entities
         /\ \A t \in ComponentTypes :
              IF Writes(e, t) = {}
              THEN world.components[e][t] = last.pre.components[e][t]
              ELSE LET p == LastWrite(e, t)
                   IN world.components[e][t] = {Records[p[1]].components[p[2]].value}
    /\ \A e \in last.mid \ Targets : world.components[e] = last.pre.components[e]

\* a record with a Velocity was applied onto a surviving entity that carried a Velocity
\* and a Transform: the Velocity changed, the Transform is as it was
C11_Witness ==
  /\ Applied /\ last.result = Ok
  /\ \E k \in 1..Len(last.trace) :
       LET e == last.trace[k].entity
       IN /\ e \in last.mid
          /\ last.trace[k].applied >= 1
          /\ last.pre.components[e]["T"] # {}
          /\ world.components[e]["T"] = last.pre.components[e]["T"]
          /\ last.pre.components[e]["A"] # {}
          /\ world.components[e]["A"] # last.pre.components[e]["A"]

\* the component types a capture of the held kind admits: saveable, and rollback-eligible
\* for a Rollback
Admitted ==
  {t \in ComponentTypes :
     t \in Saveables /\ (snapshot.kind = "Rollback" => can_rollback(t))}

\* the records of the held capture whose identity is the raw identity of entity e
RecordsOf(e) == {k \in 1..Len(Records) : Records[k].entity = e.index}

\* C12: a capture holds exactly one record per entity live at the capture, whose identity
\* is the entity's index, also for an entity without admitted components; no two records
\* share an identity; a record lists, once each, exactly the entity's components of the
\* saveable types the filter admits, with their values.
C12_OneRecordPerEntity ==
  origin.captured =>
    /\ Len(Records) = Cardinality(origin.world.entities)
    /\ \A j, k \in 1..Len(Records) : Records[j].entity = Records[k].entity => j = k
    /\ \A k \in 1..Len(Records) : \E e \in origin.world.entities : k \in RecordsOf(e)
    /\ \A e \in origin.world.entities :
         /\ Cardinality(RecordsOf(e)) = 1
         /\ \A k \in RecordsOf(e) :
              LET cs == Records[k].components
              IN /\ {cs[i] : i \in 1..Len(cs)} =
                      UNION {{[type |-> t, value |-> v] :
                                 v \in origin.world.components[e][t]} : t \in Admitted}
                 /\ \A i, j \in 1..Len(cs) : cs[i].type = cs[j].type => i = j

\* a capture of two entities: one of generation 1 with a Velocity and a Transform, whose
\* record holds the Velocity alone, and one without components, whose record is empty
C12_Witness ==
  /\ origin.captured /\ Len(Records) = 2
  /\ \E e \in origin.world.entities :
       /\ e.generation = 1
       /\ origin.world.components[e]["T"] # {}
       /\ \E k \in RecordsOf(e) : Len(Records[k].components) = 1
  /\ \E e \in origin.world.entities :
       /\ origin.world.components[e] = NoComponents
       /\ \E k \in RecordsOf(e) : Records[k].components = <<>>

\* C13: every target the record loop resolves is live when it is resolved, so the apply
\* never reaches into an entity that does not exist, whatever the despawn mode, mapping
\* mode and EntityMapping; and the despawn step keeps every live entity that an explicit
\* EntityMapping entry of a record points to.
C13_TargetsLive ==
  Applied =>
    /\ last.result.kind # "Panic"
    /\ \A k \in 1..Len(last.trace) : last.trace[k].entity \in world.entities
    /\ DespawnRan => \A e \in MappedImages \cap last.pre.entities : e \in last.mid

====
